---- MODULE Spec2Model ----
(***************************************************************************)
(* txkube._network: the Twisted client that maps create / get / delete /   *)
(* list onto HTTP requests against a Kubernetes API server, checks the     *)
(* response status and decodes the body.                                   *)
(*                                                                         *)
(* Text (unicode and bytes alike) is a sequence of characters, each a      *)
(* one-character string; the two characters outside ASCII that the model   *)
(* uses are written "E-acute" and "e-acute".  None is the empty tuple and  *)
(* a present optional value v is <<v>>.                                    *)
(***************************************************************************)
EXTENDS Integers, Sequences, FiniteSets, TLC

\* ------------------------------------------------------------------ bounds
\* How many calls (create/get/delete/list) one behaviour makes on the client.
MaxCalls == 2
\* The longest generated kind name of the path-builder specification.
MaxKindLen == 2

\* --------------------------------------------------------------- constants
\* twisted.web.http.OK and CREATED, as imported by _network.py.
OK == 200
CREATED == 201

None == <<>>
Some(v) == <<v>>

\* -------------------------------------------------------------------- text
NonAscii == {"E-acute", "e-acute"}

\* unicode.lower() on one character, for the characters the model uses.
LowerChar(ch) ==
    CASE ch = "P" -> "p"
      [] ch = "N" -> "n"
      [] ch = "S" -> "s"
      [] ch = "Y" -> "y"
      [] ch = "E-acute" -> "e-acute"
      [] OTHER -> ch

lower(text) == [i \in 1..Len(text) |-> LowerChar(text[i])]

\* unicode.encode("ascii"): the text itself when every character is ASCII,
\* UnicodeEncodeError otherwise.
CanEncodeAscii(text) == \A i \in 1..Len(text) : text[i] \notin NonAscii

\* ------------------------------------------------------------ path builder
\* IObject.providedBy(obj): an instance of an object type, as opposed to the
\* type (the bare kind descriptor) itself.
providedBy(obj) == obj.isObject

\* Mutant of collection_location: a plural table ("es" behind a final "s").
collection_location_plural(obj) ==
    LET name == lower(obj.kind)
        collection == IF name # <<>> /\ name[Len(name)] = "s"
                      THEN name \o <<"e", "s">> ELSE name \o <<"s">>
        namespace == IF providedBy(obj) THEN obj.metadata.namespace ELSE None
    IN  IF namespace = None
        THEN <<<<"a", "p", "i">>, <<"v", "1">>, collection>>
        ELSE <<<<"a", "p", "i">>, <<"v", "1">>,
               <<"n", "a", "m", "e", "s", "p", "a", "c", "e", "s">>,
               namespace[1], collection>>

\* Mutant of collection_location: a kind descriptor is looked up in the
\* namespace "default".
collection_location_default(obj) ==
    LET collection == lower(obj.kind) \o <<"s">>
        namespace == IF providedBy(obj) THEN obj.metadata.namespace
                     ELSE Some(<<"d", "e", "f", "a", "u", "l", "t">>)
    IN  IF namespace = None
        THEN <<<<"a", "p", "i">>, <<"v", "1">>, collection>>
        ELSE <<<<"a", "p", "i">>, <<"v", "1">>,
               <<"n", "a", "m", "e", "s", "p", "a", "c", "e", "s">>,
               namespace[1], collection>>

collection_location(obj) ==
    LET kind == obj.kind
        collection == lower(kind) \o <<"s">>
        namespace == IF providedBy(obj) THEN obj.metadata.namespace ELSE None
    IN  IF namespace = None
        THEN <<<<"a", "p", "i">>, <<"v", "1">>, collection>>
        ELSE <<<<"a", "p", "i">>, <<"v", "1">>,
               <<"n", "a", "m", "e", "s", "p", "a", "c", "e", "s">>,
               namespace[1], collection>>

\* Mutant of object_location: the last segment is taken from obj.spec.
object_location_spec(obj) == collection_location(obj) \o <<obj.spec>>

\* object_location(obj): the collection's segments and obj.metadata.name.
object_location(obj) == collection_location(obj) \o <<obj.metadata.name>>

\* --------------------------------------------------------------------- URL
\* twisted.python.url.URL: an origin (scheme and authority, one opaque token)
\* and a tuple of path segments.
\* URL.child(*segments): the segments appended, a trailing empty segment of
\* the base path (the base URL ended in "/") dropped first.
child(url, segments) ==
    LET path == url.path
        kept == IF path # <<>> /\ path[Len(path)] = <<>>
                THEN SubSeq(path, 1, Len(path) - 1)
                ELSE path
    IN  [origin |-> url.origin, path |-> kept \o segments]

RECURSIVE JoinPath(_)
JoinPath(path) ==
    IF path = <<>> THEN <<>>
    ELSE <<"/">> \o Head(path) \o JoinPath(Tail(path))

\* URL.asText(): origin, then every segment behind a "/".
asText(url) == <<url.origin>> \o JoinPath(url.path)

\* -------------------------------------------------------------------- JSON
\* A JSON value: a string, null, or an object (its members in text order).
JStr(text) == [t |-> "string", s |-> text, m |-> <<>>]
JNull == [t |-> "null", s |-> <<>>, m |-> <<>>]
JObj(members) == [t |-> "object", s |-> <<>>, m |-> members]
Member(key, value) == [k |-> key, v |-> value]

\* Mutant of EscapeChar: no character is escaped.
EscapeChar_plain(ch) == <<ch>>

\* json.dumps escapes (ensure_ascii is on by default): the quote, the
\* backslash, and every character outside ASCII as \uXXXX.
EscapeChar(ch) ==
    CASE ch = "e-acute" -> <<"\\", "u", "0", "0", "e", "9">>
      [] ch = "E-acute" -> <<"\\", "u", "0", "0", "c", "9">>
      [] ch = "\"" -> <<"\\", "\"">>
      [] ch = "\\" -> <<"\\", "\\">>
      [] OTHER -> <<ch>>

RECURSIVE EscapeText(_)
EscapeText(text) ==
    IF text = <<>> THEN <<>>
    ELSE EscapeChar(Head(text)) \o EscapeText(Tail(text))

\* json.dumps with its default separators (", " and ": ").
RECURSIVE dumps(_)
RECURSIVE DumpMembers(_)
dumps(value) ==
    CASE value.t = "string" -> <<"\"">> \o EscapeText(value.s) \o <<"\"">>
      [] value.t = "object" -> <<"{">> \o DumpMembers(value.m) \o <<"}">>
      [] OTHER -> <<"n", "u", "l", "l">>

DumpMembers(members) ==
    IF members = <<>> THEN <<>>
    ELSE LET first == Head(members)
             one == <<"\"">> \o EscapeText(first.k) \o <<"\"", ":", " ">>
                    \o dumps(first.v)
         IN  IF Tail(members) = <<>> THEN one
             ELSE one \o <<",", " ">> \o DumpMembers(Tail(members))

\* json.loads: a recursive-descent parse of the whole text.  Each parser
\* returns what it read and the text left, or ok = FALSE (ValueError).
ParseFail == [ok |-> FALSE, v |-> JNull, rest |-> <<>>]
Parsed(value, rest) == [ok |-> TRUE, v |-> value, rest |-> rest]
From(text, i) == SubSeq(text, i, Len(text))

RECURSIVE SkipWs(_)
SkipWs(text) ==
    IF text # <<>> /\ Head(text) = " " THEN SkipWs(Tail(text)) ELSE text

\* The characters of a string, behind its opening quote.
RECURSIVE ParseChars(_, _)
ParseChars(text, acc) ==
    IF text = <<>> THEN ParseFail
    ELSE IF Head(text) = "\"" THEN Parsed(JStr(acc), Tail(text))
    ELSE IF Head(text) = "\\" THEN
        IF Len(text) >= 6 /\ SubSeq(text, 2, 6) = <<"u", "0", "0", "e", "9">>
        THEN ParseChars(From(text, 7), Append(acc, "e-acute"))
        ELSE IF Len(text) >= 6 /\ SubSeq(text, 2, 6) = <<"u", "0", "0", "c", "9">>
        THEN ParseChars(From(text, 7), Append(acc, "E-acute"))
        ELSE IF Len(text) >= 2 /\ text[2] \in {"\"", "\\"}
        THEN ParseChars(From(text, 3), Append(acc, text[2]))
        ELSE ParseFail
    ELSE ParseChars(Tail(text), Append(acc, Head(text)))

RECURSIVE ParseValue(_)
RECURSIVE ParseMembers(_, _)
ParseValue(text0) ==
    LET text == SkipWs(text0)
    IN  IF text = <<>> THEN ParseFail
        ELSE IF Head(text) = "\"" THEN ParseChars(Tail(text), <<>>)
        ELSE IF Head(text) = "{" THEN
            LET inner == SkipWs(Tail(text))
            IN  IF inner # <<>> /\ Head(inner) = "}"
                THEN Parsed(JObj(<<>>), Tail(inner))
                ELSE ParseMembers(inner, <<>>)
        ELSE IF Len(text) >= 4 /\ SubSeq(text, 1, 4) = <<"n", "u", "l", "l">>
        THEN Parsed(JNull, From(text, 5))
        ELSE ParseFail

\* The members of an object, from the first character of a key.
ParseMembers(text, acc) ==
    IF text = <<>> \/ Head(text) # "\"" THEN ParseFail
    ELSE LET key == ParseChars(Tail(text), <<>>)
             colon == SkipWs(key.rest)
         IN  IF ~key.ok \/ colon = <<>> \/ Head(colon) # ":" THEN ParseFail
             ELSE LET val == ParseValue(Tail(colon))
                      after == SkipWs(val.rest)
                      acc2 == Append(acc, Member(key.v.s, val.v))
                  IN  IF ~val.ok \/ after = <<>> THEN ParseFail
                      ELSE IF Head(after) = "}" THEN Parsed(JObj(acc2), Tail(after))
                      ELSE IF Head(after) = ","
                      THEN ParseMembers(SkipWs(Tail(after)), acc2)
                      ELSE ParseFail

\* loads(text): [ok |-> TRUE, v |-> the document], or ok = FALSE when the
\* text is not one JSON value (json raises ValueError).
loads(text) ==
    LET r == ParseValue(text)
    IN  IF r.ok /\ SkipWs(r.rest) = <<>> THEN [ok |-> TRUE, v |-> r.v]
        ELSE [ok |-> FALSE, v |-> JNull]

\* ----------------------------------------------------------- domain objects
\* An IObject instance: kind, metadata (name, optional namespace) and one
\* further field, spec.  A bare kind descriptor (the type itself) has the kind
\* only; its other fields are never read.
Object(kind, namespace, name, spec) ==
    [isObject |-> TRUE, kind |-> kind,
     metadata |-> [name |-> name, namespace |-> namespace], spec |-> spec]
Descriptor(kind) ==
    [isObject |-> FALSE, kind |-> kind,
     metadata |-> [name |-> <<>>, namespace |-> None], spec |-> <<>>]
NoObject == Descriptor(<<>>)

K_kind == <<"k", "i", "n", "d">>
K_metadata == <<"m", "e", "t", "a", "d", "a", "t", "a">>
K_name == <<"n", "a", "m", "e">>
K_namespace == <<"n", "a", "m", "e", "s", "p", "a", "c", "e">>
K_spec == <<"s", "p", "e", "c">>

\* obj.to_raw(): the JSON-compatible structure of an object.
to_raw(obj) ==
    JObj(<<Member(K_kind, JStr(obj.kind)),
           Member(K_metadata,
                  JObj(<<Member(K_name, JStr(obj.metadata.name))>>
                       \o IF obj.metadata.namespace = None THEN <<>>
                          ELSE <<Member(K_namespace,
                                        JStr(obj.metadata.namespace[1]))>>)),
           Member(K_spec, JStr(obj.spec))>>)

\* dict.get(key): Some(value) of the first member named key, or None.
Lookup(doc, key) ==
    LET hits == {i \in 1..Len(doc.m) : doc.m[i].k = key}
    IN  IF doc.t # "object" \/ hits = {} THEN None
        ELSE Some(doc.m[CHOOSE i \in hits : \A j \in hits : i <= j].v)

IsStr(opt) == opt # None /\ opt[1].t = "string"

\* object_from_raw(document): the object a document describes, or its schema
\* error when the document has no kind or no metadata.name.
object_from_raw(doc) ==
    LET kind == Lookup(doc, K_kind)
        meta == Lookup(doc, K_metadata)
        name == IF meta = None THEN None ELSE Lookup(meta[1], K_name)
        ns == IF meta = None THEN None ELSE Lookup(meta[1], K_namespace)
        spec == Lookup(doc, K_spec)
    IN  IF IsStr(kind) /\ IsStr(name)
        THEN [ok |-> TRUE,
              obj |-> Object(kind[1].s,
                             IF IsStr(ns) THEN Some(ns[1].s) ELSE None,
                             name[1].s,
                             IF IsStr(spec) THEN spec[1].s ELSE <<>>)]
        ELSE [ok |-> FALSE, obj |-> NoObject]

\* ------------------------------------------------------------------ errors
Error(type) == [type |-> type, code |-> 0, body |-> <<>>]
NoError == Error("")
\* KubernetesError.from_response(response), once the body is read: the
\* error carrying the response's status code and its body.
KubernetesError(code, body) ==
    [type |-> "KubernetesError", code |-> code, body |-> body]

\* ----------------------------------------------------------- the operations
Ops == {"create", "get", "delete", "list"}

\* _post for create, _delete for delete, _get for get and list.
Method(op) ==
    CASE op = "create" -> "POST"
      [] op = "delete" -> "DELETE"
      [] OTHER -> "GET"

\* Mutant of Expected: every operation accepts 200 and 201 alike.
Expected_lax(op) == {OK, CREATED}

\* The codes each operation hands to check_status.
Expected(op) == IF op = "create" THEN {CREATED} ELSE {OK}

\* Mutant of Location: get and delete address the collection.
Location_collection(op, obj) == collection_location(obj)

\* The path segments each operation puts behind base_url.
Location(op, obj) ==
    IF op \in {"create", "list"} THEN collection_location(obj)
    ELSE object_location(obj)

\* _BytesProducer: the data, and length, the property len(self._data).
BytesProducer(data) == [data |-> data, length |-> Len(data)]

\* Mutant of BodyProducer: every request carries the serialized object.
BodyProducer_always(op, obj) == Some(BytesProducer(dumps(to_raw(obj))))

\* _post's bodyProducer; _get and _delete pass none.
BodyProducer(op, obj) ==
    IF op = "create" THEN Some(BytesProducer(dumps(to_raw(obj)))) ELSE None

\* Mutant of Callbacks: delete decodes the body as get does.
Callbacks_decode(op) ==
    IF op = "list"
    THEN <<"check_status", "readBody", "loads", "object_from_raw">>
    ELSE <<"check_status", "readBody", "loads", "log_response_object",
           "object_from_raw">>

\* Mutant of Callbacks: no operation checks the status.
Callbacks_unchecked(op) ==
    CASE op = "delete" -> <<"readBody", "discard">>
      [] op = "list" -> <<"readBody", "loads", "object_from_raw">>
      [] OTHER -> <<"readBody", "loads", "log_response_object",
                    "object_from_raw">>

\* The callbacks each operation adds to the Deferred of its request, in order
\* ("discard" is delete's lambda raw: None).
Callbacks(op) ==
    CASE op = "delete" -> <<"check_status", "readBody", "discard">>
      [] op = "list" -> <<"check_status", "readBody", "loads", "object_from_raw">>
      [] OTHER -> <<"check_status", "readBody", "loads",
                    "log_response_object", "object_from_raw">>

\* ------------------------------------------------------------- Deferreds
\* The current result of a Deferred: a value ("ok"), a Failure ("fail"), or
\* paused on the Deferred a callback returned (st names what it waits for).
Val(type, x) == [type |-> type, x |-> x]
Ok(value) == [st |-> "ok", value |-> value, error |-> NoError]
Failed(error) == [st |-> "fail", value |-> Val("None", None), error |-> error]
Wait(on, value) == [st |-> on, value |-> value, error |-> NoError]

\* Mutant of check_status: every response is passed on.
check_status_pass(response, expected) == Ok(response)

\* check_status(response, expected): the response itself when its code is
\* expected, else the Deferred of KubernetesError.from_response(response).
check_status(response, expected) ==
    IF response.x.code \notin expected THEN Wait("from_response", response)
    ELSE Ok(response)

\* Mutant of Apply: text that does not parse is decoded as null.
Apply_lenient(cb, value, op) ==
    CASE cb = "check_status" -> check_status(value, Expected(op))
      [] cb = "readBody" -> Wait("readBody", value)
      [] cb = "loads" ->
            LET r == loads(value.x)
            IN  Ok(Val("document", IF r.ok THEN r.v ELSE JNull))
      [] cb = "log_response_object" -> Ok(value)
      [] cb = "object_from_raw" ->
            LET r == object_from_raw(value.x)
            IN  IF r.ok THEN Ok(Val("object", r.obj)) ELSE Failed(Error("SchemaError"))
      [] OTHER -> Ok(Val("None", None))

\* One callback applied to the value the Deferred holds.
Apply(cb, value, op) ==
    CASE cb = "check_status" -> check_status(value, Expected(op))
      [] cb = "readBody" -> Wait("readBody", value)
      [] cb = "loads" ->
            LET r == loads(value.x)
            IN  IF r.ok THEN Ok(Val("document", r.v)) ELSE Failed(Error("ValueError"))
      [] cb = "log_response_object" -> Ok(value)
      [] cb = "object_from_raw" ->
            LET r == object_from_raw(value.x)
            IN  IF r.ok THEN Ok(Val("object", r.obj)) ELSE Failed(Error("SchemaError"))
      [] OTHER -> Ok(Val("None", None))

\* Deferred._runCallbacks for a chain built with addCallback only: a callback
\* runs on a value, is skipped on a Failure, and a callback that returns a
\* Deferred pauses the chain.
RECURSIVE RunCallbacks(_, _, _, _)
RunCallbacks(cbs, res, ran, op) ==
    IF cbs = <<>> \/ res.st \notin {"ok", "fail"}
    THEN [res |-> res, left |-> cbs, ran |-> ran]
    ELSE IF res.st = "fail" THEN RunCallbacks(Tail(cbs), res, ran, op)
    ELSE RunCallbacks(Tail(cbs), Apply(Head(cbs), res.value, op),
                      Append(ran, Head(cbs)), op)

\* Mutant of ErrorToFailure: the error is passed on as a value (the
\* addCallback(Failure) is missing).
ErrorToFailure_value(error) == Ok(Val("error", error))

\* What check_status's d.addCallback(Failure) makes of the error that
\* from_response built.
ErrorToFailure(error) == Failed(error)

\* ------------------------------------------------------------------- state
VARIABLES
    kubernetes,   \* _NetworkKubernetes: base_url and the agent
    clients,      \* the _NetworkClient values that client() has returned
    calls         \* the calls made on the clients, numbered in order of issue
vars == <<kubernetes, clients, calls>>

\* Mutant of client: the client gets an agent of its own.
client_own(self) == [kubernetes |-> self, agent |-> "agent of the client"]

\* _NetworkKubernetes.client(): _NetworkClient(self, self._agent).  Both
\* classes are frozen attrs classes, so a client is the value of its two
\* fields.
client(self) == [kubernetes |-> self, agent |-> self.agent]

NoClient ==
    [kubernetes |-> [base_url |-> [origin |-> "", path |-> <<>>], agent |-> ""],
     agent |-> ""]

Calls == 1..MaxCalls

NoValue == [type |-> "", obj |-> NoObject]
Pending == [state |-> "pending", error |-> NoError, value |-> NoValue]

\* What the caller gets: the exception a call raised, or what its Deferred
\* fired with.
Raised(error) == [state |-> "raised", error |-> error, value |-> NoValue]
Finish(res) ==
    IF res.st = "ok"
    THEN [state |-> "result", error |-> NoError,
          value |-> [type |-> res.value.type,
                     obj |-> IF res.value.type = "object" THEN res.value.x
                             ELSE NoObject]]
    ELSE [state |-> "failure", error |-> res.error, value |-> NoValue]

Idle ==
    [pc |-> "idle", op |-> "none", obj |-> NoObject,
     client |-> NoClient,     \* the client the call is made on (self)
     url |-> [origin |-> "", path |-> <<>>],   \* the URL the call built
     sent |-> <<>>,           \* the requests handed to agent.request
     callbacks |-> <<>>,      \* the callbacks still on the Deferred
     ran |-> <<>>,            \* the stages executed, in order
     reads |-> 0,             \* body reads started on the response
     code |-> 0,              \* the status of the response received
     body |-> None,           \* the body delivered
     fault |-> "",            \* the failure the agent or the body read gave
     opAction |-> "none",     \* the Eliot action of the operation
     reqAction |-> "none",    \* the Eliot action of _request
     outcome |-> Pending]

\* _request: the URL as text, encoded to ASCII (which raises for a URL with a
\* character outside it), handed to agent.request with the method, no headers
\* and the body producer.
Request(agent, method, url, bodyProducer) ==
    LET text == asText(url)
    IN  IF CanEncodeAscii(text)
        THEN [raised |-> FALSE,
              sent |-> <<[agent |-> agent, method |-> method, uri |-> text,
                          headers |-> None, bodyProducer |-> bodyProducer]>>]
        ELSE [raised |-> TRUE, sent |-> <<>>]

\* The Deferred of the call fires with res: its callbacks run until the chain
\* ends (addActionFinish ends the operation's action and passes the result
\* on) or pauses on a body read.
Fire(call, res) ==
    LET r == RunCallbacks(call.callbacks, res, call.ran, call.op)
    IN  IF r.res.st \in {"ok", "fail"}
        THEN [call EXCEPT !.pc = "done", !.callbacks = r.left, !.ran = r.ran,
                          !.opAction = IF r.res.st = "ok" THEN "succeeded"
                                       ELSE "failed",
                          !.outcome = Finish(r.res)]
        ELSE [call EXCEPT !.pc = r.res.st, !.callbacks = r.left, !.ran = r.ran,
                          !.reads = @ + 1]

\* client(): the endpoint hands out a client.
Client ==
    /\ clients' = clients \cup {client(kubernetes)}
    /\ UNCHANGED <<kubernetes, calls>>

\* create(obj), get(obj), delete(obj), list(kind) on one of the clients, up
\* to the return of the Deferred: both Eliot actions start, the URL is built
\* from self.kubernetes.base_url, the request is issued on self.agent and
\* the callbacks are added.
Invoke(c, op, obj) ==
    /\ calls[c].pc = "idle"
    /\ IF c = 1 THEN TRUE ELSE calls[c - 1].pc # "idle"
    /\ \E self \in clients :
       LET url == child(self.kubernetes.base_url, Location(op, obj))
           req == Request(self.agent, Method(op), url, BodyProducer(op, obj))
           started == [Idle EXCEPT !.op = op, !.obj = obj, !.client = self,
                                   !.url = url,
                                   !.opAction = "started",
                                   !.reqAction = "started"]
       IN  calls' = [calls EXCEPT ![c] =
                IF req.raised
                THEN [started EXCEPT !.pc = "raised", !.ran = <<"url">>,
                                     !.outcome = Raised(Error("UnicodeEncodeError"))]
                ELSE [started EXCEPT !.pc = "requested", !.ran = <<"url", "request">>,
                                     !.sent = req.sent,
                                     !.callbacks = Callbacks(op)]]
    /\ UNCHANGED <<kubernetes, clients>>

\* Mutant of Respond: the response is kept in one slot shared by the calls,
\* so it reaches every call that waits for one.
Respond_shared(c, code) ==
    /\ calls[c].pc = "requested"
    /\ calls' = [d \in Calls |->
            IF calls[d].pc = "requested"
            THEN Fire([calls[d] EXCEPT !.code = code, !.reqAction = "succeeded"],
                      Ok(Val("response", [code |-> code])))
            ELSE calls[d]]
    /\ UNCHANGED <<kubernetes, clients>>

\* The agent's Deferred fires with a response of the given status code.
Respond(c, code) ==
    /\ calls[c].pc = "requested"
    /\ calls' = [calls EXCEPT ![c] =
            Fire([calls[c] EXCEPT !.code = code, !.reqAction = "succeeded"],
                 Ok(Val("response", [code |-> code])))]
    /\ UNCHANGED <<kubernetes, clients>>

\* The agent's Deferred fires with a Failure: no response was received.
RequestFail(c, err) ==
    /\ calls[c].pc = "requested"
    /\ calls' = [calls EXCEPT ![c] =
            Fire([calls[c] EXCEPT !.fault = err, !.reqAction = "failed"],
                 Failed(Error(err)))]
    /\ UNCHANGED <<kubernetes, clients>>

\* The body read that the call waits for delivers the whole body: readBody's
\* Deferred fires with the bytes, from_response's with the error built from
\* them.
BodyDelivered(c, bytes) ==
    /\ calls[c].pc \in {"readBody", "from_response"}
    /\ calls' = [calls EXCEPT ![c] =
            Fire([calls[c] EXCEPT !.body = Some(bytes)],
                 IF calls[c].pc = "readBody" THEN Ok(Val("bytes", bytes))
                 ELSE ErrorToFailure(KubernetesError(calls[c].code, bytes)))]
    /\ UNCHANGED <<kubernetes, clients>>

\* The body read fails (the connection is lost before the body is complete).
BodyFail(c, err) ==
    /\ calls[c].pc \in {"readBody", "from_response"}
    /\ calls' = [calls EXCEPT ![c] =
            Fire([calls[c] EXCEPT !.fault = err], Failed(Error(err)))]
    /\ UNCHANGED <<kubernetes, clients>>

\* ------------------------------------------------------------- environment
T_Pod == <<"P", "o", "d">>
T_Namespace == <<"N", "a", "m", "e", "s", "p", "a", "c", "e">>
T_ns1 == <<"n", "s", "1">>
T_p1 == <<"p", "1">>

PodA == Object(T_Pod, Some(T_ns1), T_p1, <<"a">>)
PodU == Object(T_Pod, Some(T_ns1), <<"p", "e-acute">>, <<>>)

\* The calls the client is asked to make.
Workload ==
    {[op |-> op, obj |-> PodA] : op \in {"create", "get", "delete"}}
    \cup {[op |-> "list", obj |-> Descriptor(T_Pod)],
          [op |-> "list", obj |-> Descriptor(T_Namespace)],
          [op |-> "delete", obj |-> PodU]}

Statuses == {OK, CREATED, 404}
TransportErrors == {"ConnectionRefusedError", "DNSLookupError"}
BodyErrors == {"ResponseFailed"}
\* Response bodies: an object document, valid JSON that is no object
\* document, and text that is not JSON.
Bodies == {dumps(to_raw(PodA)), <<"{", "}">>, <<"{">>}

BaseURL == [origin |-> "https://kube", path |-> <<>>]
Agent == "agent"

Init ==
    /\ kubernetes = [base_url |-> BaseURL, agent |-> Agent]
    /\ clients = {}
    /\ calls = [c \in Calls |-> Idle]

Call(c) == \E w \in Workload : Invoke(c, w.op, w.obj)

Next ==
    \/ Client
    \/ \E c \in Calls :
        \/ Call(c)
        \/ \E code \in Statuses : Respond(c, code)
        \/ \E err \in TransportErrors : RequestFail(c, err)
        \/ \E bytes \in Bodies : BodyDelivered(c, bytes)
        \/ \E err \in BodyErrors : BodyFail(c, err)

Spec == Init /\ [][Next]_vars

\* The agent resolves every request it was handed and every body read that
\* was started ends: the reactor keeps delivering what the network gives.
RequestResolves(c) ==
    \/ \E code \in Statuses : Respond(c, code)
    \/ \E err \in TransportErrors : RequestFail(c, err)

BodyReadEnds(c) ==
    \/ \E bytes \in Bodies : BodyDelivered(c, bytes)
    \/ \E err \in BodyErrors : BodyFail(c, err)

FairSpec ==
    Spec /\ \A c \in Calls : WF_vars(RequestResolves(c)) /\ WF_vars(BodyReadEnds(c))

\* ------------------------------------------- the request-building functions
\* Every kind name of up to MaxKindLen characters, every shape of namespace
\* and name, and every base URL shape: the inputs of the path builder and of
\* the request a call issues.
KindChars == {"P", "o", "s", "Y"}
RECURSIVE TextsUpTo(_, _)
TextsUpTo(chars, n) ==
    IF n = 0 THEN {<<>>}
    ELSE LET shorter == TextsUpTo(chars, n - 1)
         IN  shorter \cup {Append(t, ch) : t \in shorter, ch \in chars}
Kinds == (TextsUpTo(KindChars, MaxKindLen) \ {<<>>}) \cup {T_Namespace}
Namespaces == {None, Some(T_ns1), Some(<<>>), Some(<<"e-acute">>)}
Names == {T_p1, <<"p", "e-acute">>}
SpecFields == {<<>>, <<"E-acute", "\"">>}
Objects ==
    {Object(k, ns, n, sp) : k \in Kinds, ns \in Namespaces, n \in Names,
                            sp \in SpecFields}
Descriptors == {Descriptor(k) : k \in Kinds}
\* list takes a kind; the other operations read obj.metadata.name.
Arguments(op) == IF op = "list" THEN Descriptors \cup Objects ELSE Objects
BaseURLs ==
    {[origin |-> "https://kube", path |-> p] :
        p \in {<<>>, <<<<>>>>, <<<<"k", "8", "s">>, <<>>>>}}

InitReq ==
    /\ kubernetes \in {[base_url |-> u, agent |-> Agent] : u \in BaseURLs}
    /\ clients = {}
    /\ calls = [c \in Calls |-> Idle]

CallAny == \E op \in Ops : \E obj \in Arguments(op) : Invoke(1, op, obj)

NextReq == Client \/ CallAny

SpecReq == InitReq /\ [][NextReq]_vars

\* ------------------------------------------------- the server echoes the body
\* One call with every shape of argument, answered with any status, its body
\* read delivering the serialized form of the call's own argument.
Answer == \E code \in Statuses : Respond(1, code)

Echo == BodyDelivered(1, dumps(to_raw(calls[1].obj)))

NextEcho == Client \/ CallAny \/ Answer \/ Echo

SpecEcho == Init /\ [][NextEcho]_vars

\* ------------------------------------------- two calls for one resource
\* A get or a delete of any object, and the same operation on an object of
\* the same kind, namespace and name whose other field differs; each call
\* gets its own response, body or failure.
SameIdentity(a, b) ==
    /\ a.kind = b.kind
    /\ a.metadata.namespace = b.metadata.namespace
    /\ a.metadata.name = b.metadata.name

CallFirst ==
    \E op \in {"get", "delete"} : \E obj \in Objects : Invoke(1, op, obj)

CallTwin ==
    \E obj \in Objects :
        /\ SameIdentity(obj, calls[1].obj)
        /\ obj # calls[1].obj
        /\ Invoke(2, calls[1].op, obj)

NextTwin ==
    \/ Client
    \/ CallFirst
    \/ CallTwin
    \/ \E c \in {1, 2} :
        \/ \E code \in Statuses : Respond(c, code)
        \/ \E err \in TransportErrors : RequestFail(c, err)
        \/ \E bytes \in Bodies : BodyDelivered(c, bytes)
        \/ \E err \in BodyErrors : BodyFail(c, err)

SpecTwin == Init /\ [][NextTwin]_vars

\* ------------------------------------------------------------------ claims
S_api == <<"a", "p", "i">>
S_v1 == <<"v", "1">>
S_namespaces == <<"n", "a", "m", "e", "s", "p", "a", "c", "e", "s">>

HasRun(c, stage) == \E i \in 1..Len(calls[c].ran) : calls[c].ran[i] = stage
IsKubernetesError(c, code, body) ==
    /\ calls[c].outcome.state = "failure"
    /\ calls[c].outcome.error =
           [type |-> "KubernetesError", code |-> code, body |-> body]

\* C1: a call resolves successfully only if the response status is the one
\* its operation expects: create only on 201; get, delete and list only on
\* 200.  A 200 answer to create never gives a result.
C1_SuccessOnlyOnExpectedStatus ==
    \A c \in Calls :
        calls[c].outcome.state = "result" =>
            \/ calls[c].op = "create" /\ calls[c].code = 201
            \/ calls[c].op \in {"get", "delete", "list"} /\ calls[c].code = 200

\* A create answered 201 gave an object while another, answered 200 with
\* the same body, failed.
C1_Witness ==
    \E c, d \in Calls :
        /\ calls[c].op = "create" /\ calls[c].code = 201
        /\ calls[c].outcome.state = "result"
        /\ calls[c].outcome.value.type = "object"
        /\ calls[d].op = "create" /\ calls[d].code = 200
        /\ calls[d].body = calls[c].body
        /\ calls[d].outcome.state = "failure"

UnexpectedStatus(op, code) ==
    \/ op = "create" /\ code # 201
    \/ op \in {"get", "delete", "list"} /\ code # 200

\* C2: when the response status is not the expected one and the body is
\* read, the call fails with the KubernetesError of exactly that status and
\* body, and neither loads nor object_from_raw runs for the call.
C2_UnexpectedStatusFailsWithServerError ==
    \A c \in Calls :
        (/\ calls[c].code # 0
         /\ UnexpectedStatus(calls[c].op, calls[c].code)
         /\ calls[c].body # None)
        => /\ calls[c].pc = "done"
           /\ IsKubernetesError(c, calls[c].code, calls[c].body[1])
           /\ ~HasRun(c, "loads")
           /\ ~HasRun(c, "object_from_raw")

\* A get answered 404 with a body that is a well-formed object document.
C2_Witness ==
    \E c \in Calls :
        /\ calls[c].op = "get" /\ calls[c].code = 404
        /\ calls[c].body = Some(dumps(to_raw(PodA)))
        /\ IsKubernetesError(c, 404, dumps(to_raw(PodA)))

ExpectedCollection(obj) ==
    IF obj.isObject /\ obj.metadata.namespace # None
    THEN <<S_api, S_v1, S_namespaces, obj.metadata.namespace[1],
           lower(obj.kind) \o <<"s">>>>
    ELSE <<S_api, S_v1, lower(obj.kind) \o <<"s">>>>

\* The last n segments of a path.
LastSegments(path, n) == SubSeq(path, Len(path) - n + 1, Len(path))

\* C3: collection_location gives ("api","v1","namespaces",ns,lower(k)+"s")
\* for an object in namespace ns and ("api","v1",lower(k)+"s") for an object
\* without namespace and for a kind descriptor; the plural is lower(k)+"s"
\* for every kind, and create and list put exactly these segments behind the
\* base URL.
C3_CollectionLocation ==
    \A c \in Calls :
        calls[c].pc # "idle" =>
            LET want == ExpectedCollection(calls[c].obj)
            IN  /\ collection_location(calls[c].obj) = want
                /\ calls[c].op \in {"create", "list"} =>
                       LastSegments(calls[c].url.path, Len(want)) = want

\* A create of a namespaced object whose kind has a capital and ends in "s".
C3_Witness ==
    /\ calls[1].pc = "requested"
    /\ calls[1].op = "create"
    /\ calls[1].obj.isObject
    /\ calls[1].obj.metadata.namespace = Some(T_ns1)
    /\ calls[1].obj.kind = <<"Y", "s">>
    /\ LastSegments(calls[1].url.path, 2) = <<T_ns1, <<"y", "s", "s">>>>

\* The base path that child() keeps: all of it but a trailing empty segment.
KeptBase ==
    LET path == kubernetes.base_url.path
    IN  IF path # <<>> /\ path[Len(path)] = <<>>
        THEN SubSeq(path, 1, Len(path) - 1) ELSE path

\* C4: object_location(r) is collection_location(r) with r's name as one more
\* segment; get and delete address base_url + object_location(obj), create
\* and list base_url + collection_location(...).
C4_ObjectLocationAndAddress ==
    \A c \in Calls :
        calls[c].pc # "idle" =>
            LET obj == calls[c].obj
                coll == ExpectedCollection(obj)
                want == IF calls[c].op \in {"get", "delete"}
                        THEN coll \o <<obj.metadata.name>> ELSE coll
            IN  /\ obj.isObject =>
                    /\ object_location(obj) = coll \o <<obj.metadata.name>>
                    /\ Len(object_location(obj)) = Len(collection_location(obj)) + 1
                /\ calls[c].url = [origin |-> kubernetes.base_url.origin,
                                   path |-> KeptBase \o want]
                /\ calls[c].sent # <<>> =>
                       calls[c].sent[1].uri =
                           <<kubernetes.base_url.origin>> \o JoinPath(KeptBase \o want)

\* A get of a namespaced object on a base URL that ends in "/".
C4_Witness ==
    /\ kubernetes.base_url.path = <<<<"k", "8", "s">>, <<>>>>
    /\ calls[1].op = "get" /\ calls[1].pc = "requested"
    /\ calls[1].obj.metadata.namespace = Some(T_ns1)
    /\ calls[1].obj.kind = <<"P", "o">>
    /\ calls[1].url.path = <<<<"k", "8", "s">>, S_api, S_v1, S_namespaces, T_ns1,
                             <<"p", "o", "s">>, T_p1>>

BareListRequests == {c \in Calls : /\ calls[c].op = "list"
                                   /\ ~calls[c].obj.isObject
                                   /\ calls[c].sent # <<>>}

\* C5 as claimed: a request of list(kind) for a kind descriptor has the path
\* ("api","v1",lower(kind)+"s") and no segment "namespaces".
C5_NoNamespacesSegment ==
    \A c \in BareListRequests :
        /\ calls[c].url.path = <<S_api, S_v1, lower(calls[c].obj.kind) \o <<"s">>>>
        /\ \A i \in 1..Len(calls[c].url.path) : calls[c].url.path[i] # S_namespaces

\* C5, amended: a request of list(kind) for a kind descriptor has exactly the
\* three-segment path ("api","v1",lower(kind)+"s"), whatever other calls were
\* made or are in flight; it carries no namespace scope, and only its
\* collection segment can read "namespaces" (for the kind Namespace).
C5_ListIsNeverNamespaced ==
    \A c \in BareListRequests :
        LET path == calls[c].url.path
        IN  /\ path = <<S_api, S_v1, lower(calls[c].obj.kind) \o <<"s">>>>
            /\ calls[c].sent[1].uri =
                   <<kubernetes.base_url.origin>> \o JoinPath(path)
            /\ \A i \in 1..(Len(path) - 1) : path[i] # S_namespaces

\* list(Pod) is requested while a create of a namespaced Pod is in flight.
C5_Witness ==
    \E c, d \in Calls :
        /\ c \in BareListRequests /\ calls[c].obj.kind = T_Pod
        /\ calls[d].op = "create" /\ calls[d].obj = PodA
        /\ calls[d].pc = "requested"

\* What one call's own request, response, body and fault make of it.
StageOrder == <<"url", "request", "check_status", "readBody", "loads",
                "log_response_object", "object_from_raw", "discard">>
StageIndex(stage) == CHOOSE i \in 1..Len(StageOrder) : StageOrder[i] = stage

Decodes(op) == op \in {"create", "get", "list"}

\* The stage of call c that failed ("" when none did), from the call's own
\* request, response, body and fault.
FailedStage(c) ==
    LET call == calls[c]
    IN  IF call.pc = "raised" THEN "request"
        ELSE IF call.pc # "done" THEN ""
        ELSE IF call.code = 0 THEN "request"
        ELSE IF UnexpectedStatus(call.op, call.code) THEN "check_status"
        ELSE IF call.fault # "" THEN "readBody"
        ELSE IF Decodes(call.op) /\ ~loads(call.body[1]).ok THEN "loads"
        ELSE IF Decodes(call.op) /\ ~object_from_raw(loads(call.body[1]).v).ok
        THEN "object_from_raw"
        ELSE ""

\* The failure that stage gave.
OriginalFailure(c) ==
    LET call == calls[c]
        stage == FailedStage(c)
    IN  CASE stage = "request" ->
                IF call.pc = "raised" THEN Error("UnicodeEncodeError")
                ELSE Error(call.fault)
          [] stage = "check_status" ->
                IF call.fault # "" THEN Error(call.fault)
                ELSE KubernetesError(call.code, call.body[1])
          [] stage = "readBody" -> Error(call.fault)
          [] stage = "loads" -> Error("ValueError")
          [] stage = "object_from_raw" -> Error("SchemaError")
          [] OTHER -> NoError

NoLaterStage(c, stage) ==
    \A i \in 1..Len(calls[c].ran) :
        StageIndex(calls[c].ran[i]) <= StageIndex(stage)

ShortCircuits(c) ==
    FailedStage(c) # "" =>
        /\ calls[c].outcome.state = "failure"
        /\ calls[c].outcome.error = OriginalFailure(c)
        /\ NoLaterStage(c, FailedStage(c))

\* C6: in every call, a failure of a stage (request issue, status check, body
\* read, JSON parse, deserialization) keeps every later stage from running
\* and the Deferred the call returned fails with exactly that failure.
C6_FailureShortCircuitsToDeferred ==
    \A c \in Calls : ShortCircuits(c)

\* The same, of the calls that returned their Deferred.
C6_OfReturnedDeferreds ==
    \A c \in Calls : calls[c].pc # "raised" => ShortCircuits(c)

\* C7: each call issues exactly one request on the connection, and a request
\* that fails before a response is received fails the call with that same
\* error; no second request is issued.
C7_ExactlyOneRequest ==
    \A c \in Calls :
        calls[c].pc # "idle" =>
            /\ Len(calls[c].sent) = 1
            /\ (calls[c].pc = "done" /\ calls[c].code = 0) =>
                   /\ calls[c].fault \in TransportErrors
                   /\ calls[c].outcome.state = "failure"
                   /\ calls[c].outcome.error = Error(calls[c].fault)

\* The same, of the calls that returned their Deferred.
C7_OfReturnedDeferreds ==
    \A c \in Calls :
        calls[c].pc \notin {"idle", "raised"} =>
            /\ Len(calls[c].sent) = 1
            /\ (calls[c].pc = "done" /\ calls[c].code = 0) =>
                   /\ calls[c].fault \in TransportErrors
                   /\ calls[c].outcome.state = "failure"
                   /\ calls[c].outcome.error = Error(calls[c].fault)

\* C8: a delete answered 200 whose body read completes succeeds with None
\* whatever the body holds; the body is read after the status check and is
\* neither parsed nor deserialized.
C8_DeleteIgnoresBody ==
    \A c \in Calls :
        (calls[c].op = "delete" /\ calls[c].code = 200 /\ calls[c].body # None)
        => /\ calls[c].outcome = [state |-> "result", error |-> NoError,
                                  value |-> [type |-> "None", obj |-> NoObject]]
           /\ calls[c].ran = <<"url", "request", "check_status", "readBody",
                               "discard">>
           /\ calls[c].reads = 1

\* A delete answered 200 with a body that is not JSON.
C8_Witness ==
    \E c \in Calls :
        /\ calls[c].op = "delete" /\ calls[c].code = 200
        /\ calls[c].body = Some(<<"{">>)
        /\ ~loads(calls[c].body[1]).ok
        /\ calls[c].outcome.state = "result"

MethodOf(op) ==
    CASE op = "create" -> "POST"
      [] op = "get" -> "GET"
      [] op = "list" -> "GET"
      [] op = "delete" -> "DELETE"

\* C9: every request has the method of its operation (create POST, get and
\* list GET, delete DELETE) and carries a body exactly when it is a POST; the
\* body is the JSON text of obj.to_raw(), one byte string (ASCII throughout)
\* whose declared length is its number of bytes.
C9_MethodAndBody ==
    \A c \in Calls :
        \A i \in 1..Len(calls[c].sent) :
            LET r == calls[c].sent[i]
            IN  /\ r.method = MethodOf(calls[c].op)
                /\ (r.bodyProducer # None) <=> (r.method = "POST")
                /\ r.bodyProducer # None =>
                    LET data == r.bodyProducer[1].data
                    IN  /\ data = dumps(to_raw(calls[c].obj))
                        /\ loads(data) = [ok |-> TRUE, v |-> to_raw(calls[c].obj)]
                        /\ \A j \in 1..Len(data) : data[j] \notin NonAscii
                        /\ r.bodyProducer[1].length = Len(data)

\* A create of an object with a character outside ASCII and a quote in its
\* spec: both are escaped, and the POST declares the 62 bytes of its body.
C9_Witness ==
    /\ calls[1].op = "create" /\ calls[1].pc = "requested"
    /\ calls[1].obj.spec = <<"E-acute", "\"">>
    /\ calls[1].obj.kind = <<"P", "o">>
    /\ calls[1].obj.metadata.namespace = None
    /\ calls[1].sent[1].method = "POST"
    /\ calls[1].sent[1].bodyProducer[1].length = 62

\* The outcome that call c's own request, response, body and fault give.
OwnOutcome(c) ==
    LET call == calls[c]
    IN  IF FailedStage(c) # ""
        THEN [state |-> "failure", error |-> OriginalFailure(c), value |-> NoValue]
        ELSE IF call.op = "delete"
        THEN [state |-> "result", error |-> NoError,
              value |-> [type |-> "None", obj |-> NoObject]]
        ELSE [state |-> "result", error |-> NoError,
              value |-> [type |-> "object",
                         obj |-> object_from_raw(loads(call.body[1]).v).obj]]

\* A call that waits can always be completed by its own next event.
NotDelayed(c) ==
    /\ calls[c].pc = "requested" =>
           /\ ENABLED Respond(c, OK)
           /\ ENABLED RequestFail(c, "DNSLookupError")
    /\ calls[c].pc \in {"readBody", "from_response"} =>
           /\ ENABLED BodyDelivered(c, <<"{">>)
           /\ ENABLED BodyFail(c, "ResponseFailed")

\* C10: with several calls in flight on one client, under every interleaving
\* of their responses and bodies, a step of one call leaves every other call
\* and the endpoint as they were, a waiting call can always take its own next
\* step, and a finished call's outcome is the one its own response gives.
C10_CallsAreIndependent ==
    /\ [](\A c \in Calls :
              /\ calls[c].pc = "done" => calls[c].outcome = OwnOutcome(c)
              /\ NotDelayed(c))
    /\ [][/\ kubernetes' = kubernetes
          /\ \A c, d \in Calls :
                 (c # d /\ calls'[c] # calls[c]) => calls'[d] = calls[d]]_vars

\* Two gets of the same object in flight together: the second has failed
\* (its response was a 404) while the first still waits, and the first then
\* succeeds.
C10_Witness ==
    /\ calls[1].op = "get" /\ calls[2].op = "get"
    /\ calls[1].obj = PodA /\ calls[2].obj = PodA
    /\ calls[1].outcome.state = "result"
    /\ calls[1].outcome.value.obj = PodA
    /\ calls[2].outcome.state = "failure"
    /\ calls[2].outcome.error.type = "KubernetesError"

\* C11: a create(obj) answered 201 whose body is the serialized form of obj
\* resolves with a domain object of obj's kind, namespace and name, for every
\* obj of the bounded set.
C11_CreateEchoRoundTrip ==
    \A c \in Calls :
        (/\ calls[c].op = "create" /\ calls[c].code = CREATED
         /\ calls[c].body = Some(dumps(to_raw(calls[c].obj))))
        => /\ calls[c].outcome.state = "result"
           /\ calls[c].outcome.value.type = "object"
           /\ calls[c].outcome.value.obj.kind = calls[c].obj.kind
           /\ calls[c].outcome.value.obj.metadata = calls[c].obj.metadata

\* The echo of a create whose name has a character outside ASCII and whose
\* spec has a quote: both are escaped in the body, and the result has the
\* name again.
C11_Witness ==
    /\ calls[1].op = "create" /\ calls[1].code = CREATED
    /\ calls[1].obj.metadata.name = <<"p", "e-acute">>
    /\ calls[1].obj.metadata.namespace = Some(T_ns1)
    /\ calls[1].obj.spec = <<"E-acute", "\"">>
    /\ calls[1].body = Some(dumps(to_raw(calls[1].obj)))
    /\ calls[1].outcome.state = "result"
    /\ calls[1].outcome.value.obj.metadata.name = <<"p", "e-acute">>

\* C12: the request of get(obj) and of delete(obj) depends on obj's kind,
\* namespace and name only: two calls of the same operation on objects that
\* agree on the three issue the same requests (the operation's method, the
\* same URL, no body), and when they get the same response, body and failure
\* they have the same outcome.
C12_IdentityOnly ==
    \A c, d \in Calls :
        (/\ calls[c].op \in {"get", "delete"} /\ calls[d].op = calls[c].op
         /\ SameIdentity(calls[c].obj, calls[d].obj))
        => /\ calls[c].sent = calls[d].sent
           /\ \A i \in 1..Len(calls[c].sent) :
                  /\ calls[c].sent[i].method = MethodOf(calls[c].op)
                  /\ calls[c].sent[i].bodyProducer = None
           /\ (/\ calls[c].pc = calls[d].pc /\ calls[c].code = calls[d].code
               /\ calls[c].body = calls[d].body
               /\ calls[c].fault = calls[d].fault)
              => calls[c].outcome = calls[d].outcome

\* Two gets of objects that differ in spec only, both answered 200 with the
\* same body, both resolved with the object of that body.
C12_Witness ==
    /\ calls[1].op = "get" /\ calls[2].op = "get"
    /\ calls[1].obj.spec # calls[2].obj.spec
    /\ SameIdentity(calls[1].obj, calls[2].obj)
    /\ calls[1].sent # <<>>
    /\ calls[1].code = OK /\ calls[2].code = OK
    /\ calls[1].body = Some(dumps(to_raw(PodA))) /\ calls[2].body = calls[1].body
    /\ calls[1].outcome.state = "result"
    /\ calls[1].outcome.value.obj = PodA

\* C13: after any sequence of client() calls and operations the endpoint has
\* the base_url and the agent it was made with, every client that client()
\* returned refers to that endpoint and that agent, and every request of
\* every call is for a URL under the base URL and is handed to that agent.
C13_OneEndpointOneConnection ==
    /\ kubernetes = [base_url |-> BaseURL, agent |-> Agent]
    /\ \A self \in clients :
           self.kubernetes = kubernetes /\ self.agent = kubernetes.agent
    /\ \A c \in Calls :
           calls[c].pc # "idle" =>
               /\ calls[c].client \in clients
               /\ calls[c].url = child(kubernetes.base_url,
                                       Location(calls[c].op, calls[c].obj))
               /\ \A i \in 1..Len(calls[c].sent) :
                      /\ calls[c].sent[i].agent = kubernetes.agent
                      /\ calls[c].sent[i].uri = asText(calls[c].url)

\* A create and a list in flight together, one finished and one waiting,
\* both handed to the endpoint's agent.
C13_Witness ==
    /\ clients # {}
    /\ calls[1].op = "create" /\ calls[2].op = "list"
    /\ calls[1].pc = "done" /\ calls[2].pc = "requested"
    /\ calls[1].sent[1].agent = Agent /\ calls[2].sent[1].agent = Agent

\* The stage that must have run before a stage can.
Before(stage) ==
    CASE stage = "request" -> "url"
      [] stage = "check_status" -> "request"
      [] stage = "readBody" -> "check_status"
      [] stage = "loads" -> "readBody"
      [] stage = "log_response_object" -> "loads"
      [] stage = "object_from_raw" -> "loads"
      [] stage = "discard" -> "readBody"
      [] OTHER -> ""

\* C14: within one call the stages run strictly in the order build URL,
\* issue request, check status, read body, parse JSON, deserialize, each at
\* most once and none before the one it follows; the status check runs only
\* on a response received, the success-path body read starts only on a
\* response the status check accepted, and object_from_raw runs only on the
\* parse of a body read whole.
C14_StagesInOrder ==
    \A c \in Calls :
        LET ran == calls[c].ran
        IN  /\ \A i, j \in 1..Len(ran) :
                   i < j => StageIndex(ran[i]) < StageIndex(ran[j])
            /\ \A j \in 1..Len(ran) :
                   Before(ran[j]) # "" =>
                       \E i \in 1..(j - 1) : ran[i] = Before(ran[j])
            /\ HasRun(c, "check_status") =>
                   calls[c].code # 0 /\ Len(calls[c].sent) = 1
            /\ HasRun(c, "readBody") => calls[c].code \in Expected(calls[c].op)
            /\ HasRun(c, "loads") => calls[c].body # None
            /\ HasRun(c, "object_from_raw") =>
                   /\ calls[c].body # None
                   /\ loads(calls[c].body[1]).ok
            /\ calls[c].pc = "requested" => ran = <<"url", "request">>

\* A get that ran every stage, to a result.
C14_Witness ==
    \E c \in Calls :
        /\ calls[c].op = "get"
        /\ calls[c].ran = <<"url", "request", "check_status", "readBody",
                            "loads", "log_response_object", "object_from_raw">>
        /\ calls[c].outcome.state = "result"

\* C15: when the status is not one the operation expects and the read of the
\* body for the error fails, the call fails with the failure of that read and
\* not with a KubernetesError; it has no result, and neither the success-path
\* body read nor any decoding stage runs.
C15_ErrorBodyReadFailure ==
    \A c \in Calls :
        (/\ calls[c].code # 0 /\ calls[c].code \notin Expected(calls[c].op)
         /\ calls[c].fault # "")
        => /\ calls[c].pc = "done"
           /\ calls[c].outcome =
                  [state |-> "failure", error |-> Error(calls[c].fault),
                   value |-> NoValue]
           /\ calls[c].fault \in BodyErrors
           /\ calls[c].ran = <<"url", "request", "check_status">>
           /\ calls[c].reads = 1
           /\ calls[c].body = None

\* A create answered 200 whose body read fails.
C15_Witness ==
    \E c \in Calls :
        /\ calls[c].op = "create" /\ calls[c].code = OK
        /\ calls[c].fault = "ResponseFailed"
        /\ calls[c].outcome.state = "failure"
        /\ calls[c].outcome.error.type = "ResponseFailed"

\* C16: for create, get and list, when the status is accepted and the body
\* read is not valid JSON the call fails with the parser's error and
\* object_from_raw is not run; when the body is valid JSON that
\* object_from_raw rejects, the call fails with exactly the error
\* object_from_raw raised.
C16_DecodeErrors ==
    \A c \in Calls :
        (/\ Decodes(calls[c].op) /\ calls[c].code \in Expected(calls[c].op)
         /\ calls[c].body # None)
        => LET doc == loads(calls[c].body[1])
           IN  /\ ~doc.ok =>
                      /\ calls[c].outcome =
                             [state |-> "failure", error |-> Error("ValueError"),
                              value |-> NoValue]
                      /\ calls[c].ran = <<"url", "request", "check_status",
                                          "readBody", "loads">>
               /\ (doc.ok /\ ~object_from_raw(doc.v).ok) =>
                      /\ calls[c].outcome =
                             [state |-> "failure", error |-> Error("SchemaError"),
                              value |-> NoValue]
                      /\ HasRun(c, "object_from_raw")

\* A list answered 200 with text that is not JSON, and a create answered 201
\* with an empty JSON object.
C16_Witness ==
    \E c, d \in Calls :
        /\ calls[c].op = "list" /\ calls[c].code = OK
        /\ calls[c].body = Some(<<"{">>)
        /\ calls[c].outcome.error = Error("ValueError")
        /\ calls[d].op = "create" /\ calls[d].code = CREATED
        /\ calls[d].body = Some(<<"{", "}">>)
        /\ calls[d].outcome.error = Error("SchemaError")

\* The request of call c has ended: with a response, with a failure of the
\* agent's Deferred, or with an exception raised while it was issued.
RequestEnded(c) ==
    calls[c].pc \in {"raised", "done", "readBody", "from_response"}

RequestActionFollows(c) ==
    /\ calls[c].sent # <<>> => calls[c].reqAction # "none"
    /\ calls[c].pc = "requested" => calls[c].reqAction = "started"
    /\ RequestEnded(c) =>
           calls[c].reqAction =
               IF calls[c].code # 0 THEN "succeeded" ELSE "failed"

\* C17: the action of a request (its method and URL) is started before the
\* request is handed to the agent and is finished once the request has
\* ended, as succeeded when a response arrived and as failed when the
\* request failed, a failure raised while issuing it included.
C17_RequestActionFinished ==
    \A c \in Calls : RequestActionFollows(c)

\* The same, of the calls that returned their Deferred.
C17_OfReturnedDeferreds ==
    \A c \in Calls : calls[c].pc # "raised" => RequestActionFollows(c)

Resolved(c) == calls[c].outcome.state \in {"result", "failure"}

\* C18: every call that was made has returned its Deferred, unfired and
\* without a step of the network; the Deferred has fired exactly when the
\* call is done, with a result or with an error and not with both.
C18_ReturnsDeferredResolvesOnce ==
    \A c \in Calls :
        calls[c].pc # "idle" =>
            /\ calls[c].outcome.state \in {"pending", "result", "failure"}
            /\ Resolved(c) <=> calls[c].pc = "done"
            /\ calls[c].outcome.state = "result" =>
                   calls[c].outcome.error = NoError
            /\ calls[c].outcome.state = "failure" =>
                   calls[c].outcome.value = NoValue

\* The same, of the calls that returned their Deferred.
C18_OfReturnedDeferreds ==
    \A c \in Calls :
        calls[c].pc \notin {"idle", "raised"} =>
            /\ calls[c].outcome.state \in {"pending", "result", "failure"}
            /\ Resolved(c) <=> calls[c].pc = "done"
            /\ calls[c].outcome.state = "result" =>
                   calls[c].outcome.error = NoError
            /\ calls[c].outcome.state = "failure" =>
                   calls[c].outcome.value = NoValue

\* When the agent resolves every request and every body read ends, a
\* Deferred that was returned fires, and once fired keeps what it fired with.
C18_ReturnedDeferredsResolve ==
    /\ \A c \in Calls :
           (calls[c].pc \in {"requested", "readBody", "from_response"})
               ~> Resolved(c)
    /\ [][\A c \in Calls :
              Resolved(c) => calls'[c].outcome = calls[c].outcome]_vars

\* C19: in every call the body of the response is read at most once, by
\* from_response when the status is not expected or by readBody when it is,
\* and not at all when the request failed before a response was received.
C19_BodyReadAtMostOnce ==
    \A c \in Calls :
        /\ calls[c].reads <= 1
        /\ calls[c].code = 0 => calls[c].reads = 0 /\ calls[c].body = None
        /\ HasRun(c, "readBody") <=>
               (calls[c].code \in Expected(calls[c].op))
        /\ (calls[c].code # 0 /\ calls[c].pc # "idle") => calls[c].reads = 1
        /\ calls[c].pc = "from_response" => ~HasRun(c, "readBody")

\* One call whose body was read for the error of a 404, one whose body was
\* read by readBody after a 200.
C19_Witness ==
    \E c, d \in Calls :
        /\ calls[c].code = 404 /\ calls[c].pc = "done"
        /\ calls[c].outcome.error.type = "KubernetesError"
        /\ calls[c].reads = 1
        /\ calls[d].code = OK /\ calls[d].op = "get" /\ calls[d].pc = "done"
        /\ HasRun(d, "readBody") /\ calls[d].reads = 1

====
